---- MODULE Spec2Model ----
(***************************************************************************)
(* EtherscanProvider (src/subproviders/etherscan.js): a request queue that *)
(* is drained by a setInterval timer into a lodash-throttled executor.     *)
(*                                                                         *)
(* Time is counted in milliseconds.  Timers are kept as the time left      *)
(* until they fire, and the two time stamps of the throttle closure as the *)
(* time passed since they were taken (saturating at the throttle's wait,   *)
(* beyond which the closure no longer tells them apart).  A timer fires    *)
(* when its time is up or later: time goes on passing over a due timer.    *)
(* When a drain timer and the timer of the throttle are due together,      *)
(* either may fire first.                                                  *)
(*                                                                         *)
(* An optional JavaScript value is a set: {} is undefined, {v} is v.       *)
(***************************************************************************)
EXTENDS Integers, Sequences, FiniteSets, TLC

\* ---- bounds of the model ------------------------------------------------
MaxReq == 3          \* handleRequest calls in one run
MaxTimes == 3        \* opts.times is drawn from 1..MaxTimes
MaxInterval == 2     \* opts.interval is drawn from 1..MaxInterval (ms)
MaxRps == 2          \* opts.maxRequestsPerSecond is drawn from 1..MaxRps
MaxHandles == 2      \* setInterval handles that can be live at once
MaxWin == 3          \* length (ms) of the observed window, at most SecondMs
MaxTx == 2           \* transactions of the block an eth_getLogs call fetches
MaxLogs == 1         \* logs a transaction receipt carries
MaxSuperseded == 2   \* timers of the throttle that it has replaced and that
                     \* are still to fire, at once

\* ---- program constants --------------------------------------------------
SecondMs == 1000     \* one second, the window of the rate cap
Forbidden == "403 - Forbidden: Access is denied."
OtherError == "error"
NoError == "null"

Ids == 1..MaxReq
Handles == 1..MaxHandles

\* the method names handlePayload has a case for
SupportedMethods ==
  { "eth_blockNumber", "eth_estimateGas", "eth_getBlockByNumber",
    "eth_getBlockTransactionCountByNumber", "eth_getTransactionByHash",
    "eth_getBalance", "eth_listTransactions", "eth_call",
    "eth_sendRawTransaction", "eth_getTransactionReceipt",
    "eth_getTransactionCount", "eth_getCode", "eth_getStorageAt" }

\* the method whose case issues more than one transport call
LogsMethod == "eth_getLogs"

\* the methods whose case reads a property of payload.params[0], or takes
\* its keys: they throw where params is []
NeedParam0 == { "eth_estimateGas", "eth_call", LogsMethod }

\* payload.params: left out, [], or an array with what the method needs
Absent == "absent"
Empty == "empty"
Given == "given"

Payload(m, p) == [ method |-> m, params |-> p ]

\* the methods submitted in the model: one with a case, one without
InputMethods == { "eth_blockNumber", "net_version" }

\* the payloads submitted in the model: of each method with its params, and
\* one without params
InputPayloads ==
  { Payload(m, Given) : m \in InputMethods }
  \cup { Payload("eth_blockNumber", Absent) }

\* the payloads that have what handlePayload reads
GivenPayloads == { payload \in InputPayloads : payload.params = Given }

\* the payloads submitted in the runs that retrieve logs: with the filter
\* object as params[0], and with an empty params array
LogsInputPayloads ==
  { Payload(LogsMethod, Given), Payload(LogsMethod, Empty) }

\* the values of opts.https (as the scheme it selects) and of opts.network
Protos == { "http", "https" }
Networks == { "mainnet", "ropsten" }

\* the error values a transport call hands to the item's end
Errs == { NoError, Forbidden, OtherError }

\* An answer to a transport call: an error value handed to end, or one on
\* which the callback throws before it calls end (a body that parses to
\* null; for the two fetches of eth_getLogs also a null result, and a falsy
\* error value, after which the result is read)
Throws == "TypeError"
Answers == Errs \cup { Throws }

VARIABLES
  times, interval, retryFailed, maxRequestsPerSecond,   \* configuration
  requests,        \* this.requests: the queue, a sequence of item ids
  running,         \* this._running
  intervalId,      \* this.intervalId: {} or {handle}
  timers,          \* live setInterval timers: handle -> {} or {ms left}
  refed,           \* whether the timer of intervalId is ref'ed
  lastArgs,        \* throttle closure: {} or {item}
  timerId,         \* throttle closure: {} or {ms left} of its setTimeout
  sinceLastCall,   \* throttle closure: {} or {ms since lastCallTime}
  sinceLastInvoke, \* throttle closure: ms since lastInvokeTime
  superseded,      \* setTimeout timers of the throttle that timerId no longer
                   \* names and that were not cleared: ms left -> how many
  method,          \* payload.method of each submitted item ("" before)
  params,          \* payload.params of each submitted item ("" before)
  submitted,       \* number of handleRequest calls so far
  inflight,        \* transport calls issued and not answered, see Call
  endCalls,        \* times the caller's end was invoked, per item
  nextCalls,       \* times the caller's next was invoked, per item
  began,           \* items whose execution began in the last step
  released,        \* watch "drain": the items the last step passed to the
                   \* throttled _handlePayload, in the order of the calls
  handed,          \* items passed to the throttled _handlePayload whose
                   \* execution has not begun since
  watch,           \* what a run observes besides: a subset of {"rate",
                   \* "retries", "answers", "drain"}, fixed from the start
  retried,         \* watch "retries": the items the retry wrapper has
                   \* pushed back at least once
  winAge, winCount, \* watch "rate": the age (ms) of the observed window
                   \* and the executions begun in it, see Observe
  proto, network,  \* this.proto, this.network
  itemUri,         \* requestObject.proto and .network of each item: {} before
                   \* it is submitted, then {<<proto, network>>}
  txCount,         \* eth_getLogs closure: {} or {blockResult.transactions.length}
  txProcessed,     \* eth_getLogs closure: txProcessed
  logs,            \* eth_getLogs closure: logs.length
  carried,         \* the logs the successful receipt answers of an item
                   \* carried, in all
  result,          \* the length of the array end(null, logs) was given:
                   \* {} before, per item
  xhrModule,       \* one call of etherscanXHR followed on its own: {} or
                   \* {its module argument}
  res,             \* {} or {what xhr gives the callback of that call}
  outcome,         \* {} or {what that callback did}, see etherscanXHR
  cb               \* {} or {what requestObject.end did with it}

config == <<times, interval, retryFailed, maxRequestsPerSecond>>
queue == <<requests, running, intervalId, timers, refed>>
throttle == <<lastArgs, timerId, sinceLastCall, sinceLastInvoke, superseded>>
calls == <<method, params, submitted, inflight, endCalls, nextCalls>>
observed == <<began, released, handed, retried, watch, winAge, winCount>>
provider == <<proto, network, itemUri>>
getLogs == <<txCount, txProcessed, logs, carried, result>>
oneCall == <<xhrModule, res, outcome, cb>>
vars == <<config, queue, throttle, calls, observed, provider, getLogs, oneCall>>

Min(a, b) == IF a < b THEN a ELSE b
Max(a, b) == IF a > b THEN a ELSE b
The(s) == CHOOSE x \in s : TRUE
Range(s) == { s[i] : i \in DOMAIN s }

\* the throttle's wait: throttle(fn, maxRequestsPerSecond) takes milliseconds
wait == maxRequestsPerSecond
Sat(t) == Min(t, wait)

(***************************************************************************)
(* The part of the state a drain tick or a timer of the throttle works on, *)
(* as a record, so that the loop of _handleRequests is one step.           *)
(***************************************************************************)
Here ==
  [ requests |-> requests, lastArgs |-> lastArgs, timerId |-> timerId,
    sinceLastCall |-> sinceLastCall, sinceLastInvoke |-> sinceLastInvoke,
    superseded |-> superseded,
    inflight |-> inflight, nextCalls |-> nextCalls, began |-> <<>>,
    released |-> <<>>,
    handed |-> handed, winAge |-> winAge, winCount |-> winCount,
    txProcessed |-> txProcessed, logs |-> logs, thrown |-> FALSE ]

Becomes(S) ==
  /\ requests' = S.requests
  /\ lastArgs' = S.lastArgs
  /\ timerId' = S.timerId
  /\ sinceLastCall' = S.sinceLastCall
  /\ sinceLastInvoke' = S.sinceLastInvoke
  /\ superseded' = S.superseded
  /\ inflight' = S.inflight
  /\ nextCalls' = S.nextCalls
  /\ began' = S.began
  /\ released' = S.released
  /\ handed' = S.handed
  /\ winAge' = S.winAge
  /\ winCount' = S.winCount
  /\ txProcessed' = S.txProcessed
  /\ logs' = S.logs

\* the observed window is never longer than a second
Window == Min(MaxWin, SecondMs)

\* An execution begins.  When the rate is watched, the execution is counted
\* in the current window, or opens a new window once that one is Window ms
\* old: the executions counted in winCount began less than Window ms apart.
Observe(S, item) ==
  LET fresh == S.winCount = 0 \/ S.winAge >= Window
  IN [S EXCEPT !.began = Append(@, item),
               !.handed = @ \ {item},
               !.winAge = IF "rate" \notin watch THEN @
                          ELSE IF fresh THEN 0 ELSE @,
               !.winCount = IF "rate" \notin watch THEN @
                            ELSE IF fresh THEN 1 ELSE Min(@ + 1, MaxRps + 1)]

\* etherscanXHR has been called and has not answered: for the item id, as
\* its single call, as the fetch of its block or as the fetch of the receipt
\* of the transaction the loop reached with key tx (0 otherwise); txhash is
\* the hash asked for ({} is undefined), uri the scheme and the network of
\* the address, stopped (watch "answers") whether stop() was called since.
Call(id, kind, tx, txhash, uri) ==
  [ id |-> id, stopped |-> FALSE, kind |-> kind, tx |-> tx, txhash |-> txhash,
    uri |-> uri ]

\* an exception leaves the function
Thrown(S) == [S EXCEPT !.thrown = TRUE]

\* handlePayload: payload.params[0] is read first, which throws where params
\* is left out, whatever the method.  Then a supported method issues its
\* transport call, whose answer comes later, and any other method calls
\* next(); eth_getLogs sets txProcessed and logs and issues the fetch of the
\* block.  The methods of NeedParam0 throw on [] before they issue a call.
handlePayload(S, uri, item) ==
  IF params[item] = Absent THEN Thrown(S)
  ELSE IF method[item] = LogsMethod
  THEN LET T == [S EXCEPT !.txProcessed[item] = 0, !.logs[item] = 0]
       IN IF params[item] = Empty THEN Thrown(T)
          ELSE [T EXCEPT !.inflight = @ \cup {Call(item, "block", 0, {}, uri)}]
  ELSE IF method[item] \in NeedParam0 /\ params[item] = Empty THEN Thrown(S)
  ELSE IF method[item] \in SupportedMethods
  THEN [S EXCEPT !.inflight = @ \cup {Call(item, "single", 0, {}, uri)}]
  ELSE [S EXCEPT !.nextCalls[item] = Min(@ + 1, 2)]

\* _handlePayload reading the scheme and the network of the provider
HandlePayloadMethodOfProvider(S, item) ==
  handlePayload(Observe(S, item), <<proto, network>>, item)

\* this._handlePayload before it is wrapped: the scheme and the network are
\* the item's
HandlePayloadMethod(S, item) ==
  handlePayload(Observe(S, item), The(itemUri[item]), item)

\* ---- lodash throttle(func, wait) = debounce(func, wait, {leading: true,
\* ---- maxWait: wait, trailing: true})
\* timerId is assigned while it names a timer that has not fired: that timer
\* is not cleared, it stays in the event loop and will run timerExpired
Supersede(S) ==
  IF S.timerId = {} THEN S
  ELSE [S EXCEPT !.superseded[The(S.timerId)] = @ + 1]

\* the timers the throttle has replaced and that are still to fire
Superseded(S) ==
  LET RECURSIVE Sum(_)
      Sum(t) == IF t < 0 THEN 0 ELSE S.superseded[t] + Sum(t - 1)
  IN Sum(MaxRps)

invokeFunc(S) ==
  HandlePayloadMethod([S EXCEPT !.lastArgs = {}, !.sinceLastInvoke = 0],
                      The(S.lastArgs))

leadingEdge(S) ==
  invokeFunc([S EXCEPT !.sinceLastInvoke = 0, !.timerId = {wait}])

shouldInvoke(S) ==
  \/ S.sinceLastCall = {}
  \/ The(S.sinceLastCall) >= wait
  \/ S.sinceLastInvoke >= wait

remainingWait(S) ==
  Min(wait - The(S.sinceLastCall), wait - S.sinceLastInvoke)

trailingEdge(S) ==
  IF S.lastArgs # {}
  THEN invokeFunc([S EXCEPT !.timerId = {}])
  ELSE [S EXCEPT !.timerId = {}, !.lastArgs = {}]

timerExpired(S) ==
  IF shouldInvoke(S)
  THEN trailingEdge(S)
  ELSE [S EXCEPT !.timerId = {remainingWait(S)}]

debounced(S, item) ==
  LET isInvoking == shouldInvoke(S)
      T == [S EXCEPT !.lastArgs = {item}, !.sinceLastCall = {0},
                     !.handed = @ \cup {item},
                     !.released = IF "drain" \in watch THEN Append(@, item)
                                  ELSE @]
  IN IF isInvoking /\ S.timerId = {} THEN leadingEdge(T)
     ELSE IF isInvoking THEN invokeFunc([Supersede(T) EXCEPT !.timerId = {wait}])
     ELSE IF S.timerId = {} THEN [T EXCEPT !.timerId = {wait}]
     ELSE T

\* cancel() clears the timer timerId names, and no other
cancel(S) ==
  [S EXCEPT !.timerId = {}, !.lastArgs = {}, !.sinceLastCall = {},
            !.sinceLastInvoke = wait]

\* ---- the drain tick ------------------------------------------------------
RECURSIVE DrainLoop(_, _)
DrainLoop(S, requestIndex) ==
  IF requestIndex >= times \/ S.thrown THEN S
  ELSE IF S.requests = <<>> THEN DrainLoop(S, requestIndex + 1)
  ELSE DrainLoop(debounced([S EXCEPT !.requests = Tail(@)], Head(S.requests)),
                 requestIndex + 1)

_handleRequests(S) == IF S.requests = <<>> THEN S ELSE DrainLoop(S, 0)

\* the setInterval callback of handle h; an exception of an execution leaves
\* the loop of _handleRequests and the callback, past the unref
handleRequests(h) ==
  /\ timers[h] = {0}
  /\ LET S == _handleRequests(Here)
     IN /\ Superseded(S) <= MaxSuperseded
        /\ Becomes(S)
        /\ refed' = IF ~S.thrown /\ S.requests = <<>> /\ intervalId # {}
                    THEN FALSE ELSE refed
  /\ timers' = [timers EXCEPT ![h] = {interval}]
  /\ UNCHANGED <<config, running, intervalId, method, params, submitted,
                 endCalls, retried, watch, provider, txCount, carried, result,
                 oneCall>>

\* the setTimeout callback of the throttle, run by the timer timerId names
TimerExpired ==
  /\ timerId = {0}
  /\ Becomes(timerExpired(Here))
  /\ UNCHANGED <<config, running, intervalId, timers, refed, method, params,
                 submitted, endCalls, retried, watch, provider, txCount,
                 carried, result, oneCall>>

\* the same callback, run by a timer the throttle has replaced: what it
\* assigns to timerId replaces the timer timerId names, if there is one
SupersededTimerExpired ==
  /\ superseded[0] > 0
  /\ LET S == timerExpired(Supersede([Here EXCEPT !.superseded[0] = @ - 1]))
     IN /\ Superseded(S) <= MaxSuperseded
        /\ Becomes(S)
  /\ UNCHANGED <<config, running, intervalId, timers, refed, method, params,
                 submitted, endCalls, retried, watch, provider, txCount,
                 carried, result, oneCall>>

\* ---- start and stop ------------------------------------------------------
FreeHandle == CHOOSE h \in Handles :
                /\ timers[h] = {}
                /\ \A g \in Handles : timers[g] = {} => h <= g

\* start() without its first line: a timer is set whether running or not
startUnguarded ==
  [running |-> TRUE, intervalId |-> {FreeHandle},
   timers |-> [timers EXCEPT ![FreeHandle] = {interval}],
   refed |-> FALSE]

\* start(), as the change it makes to the queue side of the state
start ==
  IF running
  THEN [running |-> running, intervalId |-> intervalId, timers |-> timers,
        refed |-> refed]
  ELSE [running |-> TRUE, intervalId |-> {FreeHandle},
        timers |-> [timers EXCEPT ![FreeHandle] = {interval}],
        refed |-> FALSE]

Start ==
  /\ running \/ \E h \in Handles : timers[h] = {}
  /\ running' = start.running
  /\ intervalId' = start.intervalId
  /\ timers' = start.timers
  /\ refed' = start.refed
  /\ began' = <<>>
  /\ released' = <<>>
  /\ UNCHANGED <<config, requests, throttle, calls, handed, retried, watch,
                 winAge, winCount, provider, getLogs, oneCall>>

\* stop() without the cancel() of the throttled _handlePayload
stopWithoutCancel ==
  IF ~running
  THEN /\ UNCHANGED <<throttle, running, timers>>
  ELSE /\ UNCHANGED throttle
       /\ timers' = [h \in Handles |-> IF h \in intervalId THEN {} ELSE timers[h]]
       /\ running' = FALSE

\* stop(): the throttle, the drain timer and _running
stop ==
  IF ~running
  THEN /\ UNCHANGED <<throttle, running, timers>>
  ELSE /\ LET S == cancel(Here)
          IN /\ lastArgs' = S.lastArgs
             /\ timerId' = S.timerId
             /\ sinceLastCall' = S.sinceLastCall
             /\ sinceLastInvoke' = S.sinceLastInvoke
             /\ superseded' = S.superseded
       /\ timers' = [h \in Handles |-> IF h \in intervalId THEN {} ELSE timers[h]]
       /\ running' = FALSE

\* stop() emptying this.requests as well
StopEmptiesQueue ==
  /\ stop
  /\ inflight' = { [c EXCEPT !.stopped = @ \/ "answers" \in watch] : c \in inflight }
  /\ requests' = <<>>
  /\ began' = <<>>
  /\ released' = <<>>
  /\ UNCHANGED <<config, intervalId, refed, method, params, submitted,
                 endCalls, nextCalls, handed, retried, watch, winAge, winCount,
                 provider, getLogs, oneCall>>

Stop ==
  /\ stop
  /\ inflight' = { [c EXCEPT !.stopped = @ \/ "answers" \in watch] : c \in inflight }
  /\ began' = <<>>
  /\ released' = <<>>
  /\ UNCHANGED <<config, requests, intervalId, refed, method, params, submitted,
                 endCalls, nextCalls, handed, retried, watch, winAge, winCount,
                 provider, getLogs, oneCall>>

\* ---- handleRequest -------------------------------------------------------
\* handleRequest without its call of start()
HandleRequestWithoutStart(payload) ==
  /\ submitted < MaxReq
  /\ refed' = IF intervalId # {} THEN TRUE ELSE refed
  /\ submitted' = submitted + 1
  /\ method' = [method EXCEPT ![submitted + 1] = payload.method]
  /\ params' = [params EXCEPT ![submitted + 1] = payload.params]
  /\ requests' = Append(requests, submitted + 1)
  /\ itemUri' = [itemUri EXCEPT ![submitted + 1] = {<<proto, network>>}]
  /\ began' = <<>>
  /\ released' = <<>>
  /\ UNCHANGED <<config, running, intervalId, timers, throttle, inflight,
                 endCalls, nextCalls, handed, retried, watch, winAge, winCount,
                 proto, network, getLogs, oneCall>>

HandleRequest(payload) ==
  /\ submitted < MaxReq
  /\ running \/ \E h \in Handles : timers[h] = {}
  /\ running' = start.running
  /\ intervalId' = start.intervalId
  /\ timers' = start.timers
  /\ refed' = TRUE
  /\ submitted' = submitted + 1
  /\ method' = [method EXCEPT ![submitted + 1] = payload.method]
  /\ params' = [params EXCEPT ![submitted + 1] = payload.params]
  /\ requests' = Append(requests, submitted + 1)
  /\ itemUri' = [itemUri EXCEPT ![submitted + 1] = {<<proto, network>>}]
  /\ began' = <<>>
  /\ released' = <<>>
  /\ UNCHANGED <<config, throttle, inflight, endCalls, nextCalls, handed,
                 retried, watch, winAge, winCount, proto, network, getLogs, oneCall>>

\* ---- the transport answers a call: requestItem.end(err, result) ----------
\* requestObject.end: the retry wrapper around the normalized end, or the
\* normalized end itself when retryFailed is off
requestObjectEnd(item, err) ==
  IF retryFailed /\ err = Forbidden
  THEN /\ requests' = Append(requests, item)
       /\ retried' = IF "retries" \in watch THEN retried \cup {item} ELSE retried
       /\ UNCHANGED endCalls
  ELSE /\ endCalls' = [endCalls EXCEPT ![item] = Min(@ + 1, 2)]
       /\ UNCHANGED <<requests, retried>>

\* the answer to the call of a single-call method: an error value, which the
\* response callback hands to the item's end, or an answer on which it
\* throws before it calls end
Respond(c, answer) ==
  /\ c \in inflight
  /\ c.kind = "single"
  /\ inflight' = inflight \ {c}
  /\ IF answer = Throws THEN UNCHANGED <<requests, retried, endCalls>>
     ELSE requestObjectEnd(c.id, answer)
  /\ began' = <<>>
  /\ released' = <<>>
  /\ UNCHANGED <<config, running, intervalId, timers, refed, throttle, method,
                 params, submitted, nextCalls, handed, watch, winAge, winCount,
                 provider, getLogs, oneCall>>

\* ---- eth_getLogs --------------------------------------------------------
\* blockResult.transactions: n transaction objects, each with its hash
Transactions(n) == [k \in 1..n |-> [hash |-> k]]

\* for (var transaction in array): the loop variable takes the keys of the
\* array, not its elements
ForIn(array) == { [key |-> k] : k \in DOMAIN array }

\* x.hash: undefined ({}) where x has no such property
Hash(x) == IF "hash" \in DOMAIN x THEN {x.hash} ELSE {}

\* a.concat(b), on the lengths: a new array, a is left as it is
concat(a, b) == a + b

\* The answer to the fetch of the block: an error value, on which end is
\* called; or a block of n transactions; or an answer on which the callback
\* throws, which leaves everything as it is.
RespondBlock(c, answer, n) ==
  /\ c \in inflight
  /\ c.kind = "block"
  /\ IF answer = Throws
     THEN /\ inflight' = inflight \ {c}
          /\ UNCHANGED <<requests, retried, endCalls, txCount>>
     ELSE IF answer # NoError
     THEN /\ inflight' = inflight \ {c}
          /\ requestObjectEnd(c.id, answer)
          /\ UNCHANGED txCount
     ELSE /\ inflight' = (inflight \ {c}) \cup
                         { Call(c.id, "receipt", transaction.key,
                                Hash(transaction), c.uri) :
                           transaction \in ForIn(Transactions(n)) }
          /\ txCount' = [txCount EXCEPT ![c.id] = {n}]
          /\ UNCHANGED <<requests, retried, endCalls>>
  /\ began' = <<>>
  /\ released' = <<>>
  /\ UNCHANGED <<config, running, intervalId, timers, refed, throttle, method,
                 params, submitted, nextCalls, handed, watch, winAge, winCount,
                 provider, txProcessed, logs, carried, result, oneCall>>

\* The answer to the fetch of a receipt: an error value, or a receipt that
\* carries n logs, both of which are counted; or an answer on which the
\* callback throws before it counts.
RespondReceipt(c, answer, n) ==
  /\ c \in inflight
  /\ c.kind = "receipt"
  /\ inflight' = inflight \ {c}
  /\ IF answer = Throws
     THEN UNCHANGED <<requests, retried, endCalls, getLogs>>
     ELSE /\ LET joined == concat(logs[c.id], n)      \* computed and dropped
             IN logs' = logs
          /\ carried' = IF answer = NoError
                        THEN [carried EXCEPT ![c.id] = @ + n]
                        ELSE carried
          /\ txProcessed' = [txProcessed EXCEPT ![c.id] = @ + 1]
          /\ UNCHANGED txCount
          /\ IF txProcessed'[c.id] = The(txCount[c.id])
             THEN /\ requestObjectEnd(c.id, NoError)
                  /\ result' = [result EXCEPT ![c.id] = {logs[c.id]}]
             ELSE UNCHANGED <<requests, retried, endCalls, result>>
  /\ began' = <<>>
  /\ released' = <<>>
  /\ UNCHANGED <<config, running, intervalId, timers, refed, throttle, method,
                 params, submitted, nextCalls, handed, watch, winAge, winCount,
                 provider, oneCall>>

\* ---- the host assigns this.proto or this.network -------------------------
SetProto(p) ==
  /\ p # proto
  /\ proto' = p
  /\ began' = <<>>
  /\ released' = <<>>
  /\ UNCHANGED <<config, queue, throttle, calls, handed, retried, watch,
                 winAge, winCount, network, itemUri, getLogs, oneCall>>

SetNetwork(n) ==
  /\ n # network
  /\ network' = n
  /\ began' = <<>>
  /\ released' = <<>>
  /\ UNCHANGED <<config, queue, throttle, calls, handed, retried, watch,
                 winAge, winCount, proto, itemUri, getLogs, oneCall>>

\* ---- one call of etherscanXHR, from the response to the caller's end -----
\* JavaScript values, as far as the callbacks tell them apart: v is the text
\* of a string, the message of an Error and the message property of a plain
\* object ("" where it has none)
Undefined == [t |-> "undefined", v |-> ""]
Null == [t |-> "null", v |-> ""]
Str(s) == [t |-> "string", v |-> s]
Err(m) == [t |-> "Error", v |-> m]
Obj(m) == [t |-> "object", v |-> m]

\* if (x)
Truthy(x) == x.t \notin {"undefined", "null"} /\ x # Str("")

\* a || b
Or(a, b) == IF Truthy(a) THEN a ELSE b

\* x.message
Message(x) ==
  IF x.t \in {"object", "Error"} /\ x.v # "" THEN Str(x.v) ELSE Undefined

\* "" + x
ToStr(x) ==
  IF x.t = "string" THEN x.v
  ELSE IF x.t = "Error" THEN "Error: " \o x.v
  ELSE IF x.t = "object" THEN "[object Object]"
  ELSE x.t

\* the status above which a response is a failure
StatusLimit == 300

\* The bodies of the responses: no text at all, text that is not JSON, the
\* JSON text null, and JSON objects by their error, message and result.
Body(kind, raw, error, message, value) ==
  [ kind |-> kind, raw |-> raw, error |-> error, message |-> message,
    result |-> value ]

Bodies ==
  { Body("text", raw, Undefined, Undefined, Undefined) :
      raw \in {"", "<html>", Forbidden} }
  \cup { Body("null", "null", Undefined, Undefined, Undefined) }
  \cup { Body("object", "{}", error, message, value) :
           error \in {Undefined, Str("e"), Obj("m"), Obj("")},
           message \in {Undefined, Str(""), Str("OK"), Str("NOTOK")},
           value \in {Undefined, Str("0x1")} }

\* what xhr gives the callback: err, res.statusCode, res.statusMessage, body
Responses ==
  [ err : {Null, Err("ECONNRESET"), Str("timeout")},
    statusCode : {200, StatusLimit, 404},
    statusMessage : {"", "Not Found"},
    body : Bodies ]

Modules == { "proxy", "account" }

\* what the callback of etherscanXHR does: ends is the number of calls of
\* end, with err and result their arguments; thrown says that an exception
\* left the callback; branch names the statement that was reached
End(branch, err, value) ==
  [ ends |-> 1, thrown |-> FALSE, branch |-> branch, err |-> err,
    result |-> value ]

Throw(branch) ==
  [ ends |-> 0, thrown |-> TRUE, branch |-> branch, err |-> Undefined,
    result |-> Undefined ]

\* JSON.parse(body) succeeds
IsJson(body) == body.kind \in {"null", "object"}

etherscanXHR(module, r) ==
  IF Truthy(r.err) THEN End("transport", r.err, Undefined)
  ELSE IF r.statusCode > StatusLimit
  THEN End("status", Or(Str(r.statusMessage), Str(r.body.raw)), Undefined)
  ELSE IF ~IsJson(r.body) THEN End("parse", Err("SyntaxError"), Undefined)
  ELSE IF r.body.kind = "null" THEN Throw("data")  \* a property of null is read
  ELSE IF module = "proxy" /\ Truthy(r.body.error)
  THEN End("error", Or(Message(r.body.error), r.body.error), Undefined)
  ELSE IF module = "account" /\ r.body.message # Str("OK")
  THEN End("message", r.body.message, Undefined)
  ELSE End("success", Null, r.body.result)

normalizeError(err) == IF err.t = "Error" THEN err ELSE Err(ToStr(err))

\* what the caller's end receives
Invoked(err, value) == [ called |-> TRUE, err |-> err, result |-> value ]

\* the function normalizeCallback returns
normalizeCallback(err, value) ==
  Invoked(IF Truthy(err) THEN normalizeError(err) ELSE err, value)

\* requestObject.end of the followed call: the retry wrapper pushes the item
\* back and does not call the caller's end
requestItemEnd(err, value) ==
  IF retryFailed /\ err = Str(Forbidden)
  THEN [ called |-> FALSE, err |-> Undefined, result |-> Undefined ]
  ELSE normalizeCallback(err, value)

\* The response of the followed call arrives: the xhr callback runs to its
\* end, and where it calls end, requestObject.end runs inside that call and
\* calls the caller's end or pushes the request object (here item 1) back.
Classify ==
  /\ res # {} /\ outcome = {}
  /\ LET o == etherscanXHR(The(xhrModule), The(res))
     IN /\ outcome' = {o}
        /\ cb' = IF o.ends = 1 THEN { requestItemEnd(o.err, o.result) }
                 ELSE cb
        /\ requests' = IF o.ends = 1 /\ retryFailed /\ o.err = Str(Forbidden)
                       THEN Append(requests, 1)
                       ELSE requests
  /\ began' = <<>>
  /\ released' = <<>>
  /\ UNCHANGED <<config, running, intervalId, timers, refed, throttle, calls,
                 handed, retried, watch, winAge, winCount, provider, getLogs,
                 xhrModule, res>>

\* ---- one millisecond passes, whether or not a timer is due ---------------
Tick ==
  /\ timerId' = { Max(t - 1, 0) : t \in timerId }
  /\ timers' = [h \in Handles |-> { Max(t - 1, 0) : t \in timers[h] }]
  /\ sinceLastCall' = { Sat(t + 1) : t \in sinceLastCall }
  /\ sinceLastInvoke' = Sat(sinceLastInvoke + 1)
  /\ superseded' = [t \in 0..MaxRps |->
                      IF t = 0 THEN superseded[0] + superseded[1]
                      ELSE IF t < MaxRps THEN superseded[t + 1] ELSE 0]
  /\ winAge' = IF "rate" \in watch THEN Min(winAge + 1, Window) ELSE winAge
  /\ began' = <<>>
  /\ released' = <<>>
  /\ UNCHANGED <<config, requests, running, intervalId, refed, lastArgs, calls,
                 handed, retried, watch, winCount, provider, getLogs, oneCall>>

\* ---- the constructor -----------------------------------------------------
\* The options are drawn from small sets; the defaults (times 4, interval
\* 1000, maxRequestsPerSecond 5, retryFailed true) are among the values an
\* option can be given and are not drawn here.
Construct ==
  /\ times \in 1..MaxTimes
  /\ interval \in 1..MaxInterval
  /\ retryFailed \in BOOLEAN
  /\ maxRequestsPerSecond \in 1..MaxRps
  /\ requests = <<>>
  /\ running = FALSE
  /\ intervalId = {}
  /\ timers = [h \in Handles |-> {}]
  /\ refed = FALSE
  /\ lastArgs = {}
  /\ timerId = {}
  /\ sinceLastCall = {}
  /\ sinceLastInvoke = maxRequestsPerSecond
  /\ superseded = [t \in 0..MaxRps |-> 0]
  /\ method = [i \in Ids |-> ""]
  /\ params = [i \in Ids |-> ""]
  /\ submitted = 0
  /\ inflight = {}
  /\ endCalls = [i \in Ids |-> 0]
  /\ nextCalls = [i \in Ids |-> 0]
  /\ began = <<>>
  /\ released = <<>>
  /\ handed = {}
  /\ retried = {}
  /\ winAge = 0
  /\ winCount = 0
  /\ itemUri = [i \in Ids |-> {}]
  /\ txCount = [i \in Ids |-> {}]
  /\ txProcessed = [i \in Ids |-> 0]
  /\ logs = [i \in Ids |-> 0]
  /\ carried = [i \in Ids |-> 0]
  /\ result = [i \in Ids |-> {}]
  /\ outcome = {}
  /\ cb = {}

\* neither opts.https nor opts.network is given
Defaults == proto = "http" /\ network = "mainnet"

\* no call of etherscanXHR is followed on its own
NoCall == xhrModule = {} /\ res = {}

Init == Construct /\ Defaults /\ NoCall /\ watch = {}

Next ==
  \/ \E payload \in InputPayloads : HandleRequest(payload)
  \/ Start
  \/ Stop
  \/ \E h \in Handles : handleRequests(h)
  \/ TimerExpired
  \/ SupersededTimerExpired
  \/ \E c \in inflight, answer \in Answers : Respond(c, answer)
  \/ Tick

Spec == Init /\ [][Next]_vars

\* ---- runs in which stop() is never called --------------------------------
\* Every payload has its params; while the process is kept alive the timers
\* of the event loop fire and time passes; and the transport answers every
\* call it was given with one of the error values in errs, which the
\* callback hands to end.
Calls == { [Call(i, "single", 0, {}, <<p, n>>) EXCEPT !.stopped = s] :
             i \in Ids, s \in BOOLEAN, p \in Protos, n \in Networks }

\* The event loop goes on while a handle is ref'ed: the drain timer (start
\* and the tick that empties the queue unref it, handleRequest refs it, the
\* retry wrapper does not), a setTimeout of the throttle, or a call that
\* awaits its answer.  With none of them, and no handle of the host, the
\* process ends and no timer fires again.
KeptAlive ==
  \/ refed /\ \E h \in intervalId : timers[h] # {}
  \/ timerId # {}
  \/ \E t \in 0..MaxRps : superseded[t] > 0
  \/ inflight # {}

Fairness(errs) ==
  /\ WF_vars(KeptAlive /\ \E h \in Handles : handleRequests(h))
  /\ WF_vars(KeptAlive /\ TimerExpired)
  /\ WF_vars(KeptAlive /\ SupersededTimerExpired)
  /\ WF_vars(KeptAlive /\ Tick)
  /\ \A c \in Calls : WF_vars(\E err \in errs : Respond(c, err))

NextNoStop ==
  \/ \E payload \in GivenPayloads : HandleRequest(payload)
  \/ Start
  \/ \E h \in Handles : handleRequests(h)
  \/ TimerExpired
  \/ SupersededTimerExpired
  \/ \E c \in inflight, err \in Errs : Respond(c, err)
  \/ Tick

SpecNoStop == Init /\ [][NextNoStop]_vars /\ Fairness(Errs)

\* ---- runs without stop() in which no answer is the forbidden signal ------
NextSteady ==
  \/ \E payload \in GivenPayloads : HandleRequest(payload)
  \/ Start
  \/ \E h \in Handles : handleRequests(h)
  \/ TimerExpired
  \/ SupersededTimerExpired
  \/ \E c \in inflight, err \in Errs \ {Forbidden} : Respond(c, err)
  \/ Tick

SpecSteady == Init /\ [][NextSteady]_vars /\ Fairness(Errs \ {Forbidden})

\* ---- runs without stop() in which the retries are observed ----------------
InitRetry == Construct /\ Defaults /\ NoCall /\ watch = {"retries"}

SpecRetry == InitRetry /\ [][NextNoStop]_vars /\ Fairness(Errs)

\* ---- runs in which the answers of the transport are observed -------------
InitAnswers == Construct /\ Defaults /\ NoCall /\ watch = {"answers"}

SpecAnswers == InitAnswers /\ [][Next]_vars

\* ---- runs in which the items a drain tick hands over are observed --------
InitDrain == Construct /\ Defaults /\ NoCall /\ watch = {"drain"}

SpecDrain == InitDrain /\ [][Next]_vars

\* ---- runs in which the rate of executions is observed --------------------
\* the cap is one execution per second
InitRate ==
  /\ Construct /\ Defaults /\ NoCall /\ watch = {"rate"}
  /\ maxRequestsPerSecond = 1

SpecRate == InitRate /\ [][Next]_vars

\* ---- runs without stop() in which the host changes the scheme and the
\* ---- network of the provider; every payload has its params and every
\* ---- answer is handed to end (no call is issued where either is not so);
\* ---- the drain timer and the throttle have a period of 1 ms, so that
\* ---- their timers are due together
InitUri ==
  /\ Construct /\ proto \in Protos /\ network \in Networks /\ NoCall
  /\ watch = {}
  /\ maxRequestsPerSecond = 1
  /\ interval = 1

NextUri ==
  \/ HandleRequest(Payload("eth_blockNumber", Given))
  \/ \E h \in Handles : handleRequests(h)
  \/ TimerExpired
  \/ SupersededTimerExpired
  \/ \E c \in inflight, err \in Errs : Respond(c, err)
  \/ Tick
  \/ \E p \in Protos : SetProto(p)
  \/ \E n \in Networks : SetNetwork(n)

SpecUri == InitUri /\ [][NextUri]_vars

\* ---- one call of etherscanXHR, for every module and response ------------
InitXhr ==
  /\ Construct /\ Defaults /\ watch = {}
  /\ xhrModule \in { {m} : m \in Modules }
  /\ res \in { {r} : r \in Responses }

NextXhr == Classify

SpecXhr == InitXhr /\ [][NextXhr]_vars

\* ---- runs without stop() in which every request retrieves logs ----------
NextLogs ==
  \/ \E payload \in LogsInputPayloads : HandleRequest(payload)
  \/ \E h \in Handles : handleRequests(h)
  \/ TimerExpired
  \/ SupersededTimerExpired
  \/ \E c \in inflight, answer \in Answers, n \in 0..MaxTx :
       RespondBlock(c, answer, n)
  \/ \E c \in inflight, answer \in Answers, n \in 0..MaxLogs :
       RespondReceipt(c, answer, n)
  \/ Tick

\* the drain timer and the throttle have a period of 1 ms, and a tick takes
\* one item
InitLogs == Init /\ maxRequestsPerSecond = 1 /\ interval = 1 /\ times = 1

SpecLogs == InitLogs /\ [][NextLogs]_vars

(***************************************************************************)
(* Where an item is.                                                       *)
(***************************************************************************)
Submitted(i) == i <= submitted
InQueue(i) == i \in Range(requests)
InLimiter(i) == i \in lastArgs
InFlight(i) == \E c \in inflight : c.id = i
Pending(i) == InQueue(i) \/ InLimiter(i) \/ InFlight(i)
Supported(i) == method[i] \in SupportedMethods
LiveTimers == { h \in Handles : timers[h] # {} }

\* nothing is queued, held by the throttle or awaiting an answer: no callback
\* of an item submitted so far can be invoked from here on
Quiet == requests = <<>> /\ lastArgs = {} /\ inflight = {}

(***************************************************************************)
(* The claims.                                                             *)
(***************************************************************************)

\* C1: a request with a supported method, in a run without stop() and without
\* a forbidden answer, has its end callback invoked exactly once: never
\* twice, and once the dispatcher is quiet (nothing queued, held or in
\* flight, so nothing can invoke it any more) it has been invoked.
C1_EndExactlyOnce ==
  \A i \in Ids :
    /\ endCalls[i] <= 1
    /\ (Quiet /\ Submitted(i) /\ Supported(i)) => endCalls[i] = 1

\* C2: every item a drain tick has handed to the throttled executor and whose
\* execution has not begun is held by the limiter (stop() not being called).
C2_HandedItemsAreHeld == \A i \in handed : InLimiter(i)

\* C3: without retries, executions begin in the order of submission: when an
\* item has begun execution, every item submitted before it has too.
C3_Fifo ==
  ~retryFailed =>
    \A i, j \in Ids :
      (Submitted(i) /\ j < i /\ (InFlight(i) \/ endCalls[i] + nextCalls[i] > 0))
        => (InFlight(j) \/ endCalls[j] + nextCalls[j] > 0)

\* C4: no more than maxRequestsPerSecond executions begin within a window of
\* one second (here: within the observed window, which is shorter).
C4_RateCap == winCount <= maxRequestsPerSecond

\* C5: with retry-on-forbidden on, a supported item that has been answered
\* and only ever with the forbidden signal has not completed and is still
\* queued, held by the limiter or in flight.
C5_ForbiddenStaysPending ==
  \A i \in retried :
    (retryFailed /\ endCalls[i] = 0) => Pending(i)

\* C6: at most one drain timer is live, one is live exactly when _running is
\* true, and it is then the timer of intervalId.
C6_OneTimerIffRunning ==
  /\ Cardinality(LiveTimers) <= 1
  /\ running <=> LiveTimers # {}
  /\ running => intervalId = LiveTimers

\* C6 witness: stop() has acted on a dispatcher that a submission had started
C6_Witness == ~running /\ submitted > 0 /\ LiveTimers = {} /\ intervalId # {}

\* C7: right after a handleRequest call _running is true, the drain timer of
\* intervalId is live and ref'ed, the new item is the last of the queue, and
\* neither end nor next of any item was invoked by the call.
C7_SubmitRearms ==
  [][ submitted' = submitted + 1 =>
        /\ running'
        /\ intervalId' # {} /\ intervalId' \subseteq { h \in Handles : timers'[h] # {} }
        /\ refed'
        /\ requests' = Append(requests, submitted')
        /\ endCalls' = endCalls /\ nextCalls' = nextCalls /\ began' = <<>>
    ]_vars

\* C7 witness: a submission has re-armed a dispatcher that had been stopped
\* with an item held by the limiter
C7_Witness ==
  /\ running /\ requests # <<>> /\ requests[Len(requests)] = submitted
  /\ \E i \in handed : ~InLimiter(i) /\ i < submitted
  /\ timerId = {} /\ inflight = {}

\* C8: stop() leaves _running false, and while _running is false no drain
\* tick fires and no execution begins, whatever the limiter had accepted and
\* whichever of its timers are still to fire.
C8_NothingRunsAfterStop ==
  [][ /\ Stop => ~running'
      /\ ~running => /\ began' = <<>>
                     /\ ~(\E h \in Handles : handleRequests(h))
    ]_vars

\* C8 witness: stopped while the limiter held an accepted item and a timer
\* it had replaced was still to fire; the timer is now due
C8_Witness ==
  /\ ~running /\ handed # {} /\ lastArgs = {} /\ timerId = {}
  /\ superseded[0] > 0

\* C9: when the answer to a call issued before stop() arrives after stop(),
\* the call is accounted for: the original completion callback is invoked
\* then, for the first and only time, or, where the retry policy applies
\* (retry-on-forbidden on, forbidden answer), the item is appended to the
\* queue to be executed again.
C9_AnsweredAfterStop ==
  [][ \A c \in inflight, answer \in Answers :
        (c.stopped /\ Respond(c, answer)) =>
          /\ endCalls[c.id] = 0
          /\ IF retryFailed /\ answer = Forbidden
             THEN /\ endCalls'[c.id] = 0
                  /\ requests' = Append(requests, c.id)
             ELSE /\ endCalls'[c.id] = 1
                  /\ requests' = requests
    ]_vars

\* C10: an item whose method is not supported never has a transport call and
\* never has end invoked, has next invoked at most once, and once the
\* dispatcher is quiet next has been invoked.
C10_UnsupportedFallsThrough ==
  \A i \in Ids :
    (Submitted(i) /\ ~Supported(i)) =>
      /\ ~InFlight(i) /\ endCalls[i] = 0 /\ nextCalls[i] <= 1
      /\ Quiet => nextCalls[i] = 1

(***************************************************************************)
(* Claims about the retrieval of logs.                                     *)
(***************************************************************************)
\* the fetch of the block of item i has succeeded
BlockFetched(i) == txCount[i] # {}

\* C11: once the fetch of the block of an eth_getLogs request has succeeded
\* with T transactions, the completion is invoked exactly once, when all T
\* receipt fetches have been answered and not before; for T = 0 it is invoked
\* at once, with an empty result.
C11_LogsCompleteOnce ==
  \A i \in Ids :
    BlockFetched(i) =>
      /\ endCalls[i] <= 1
      /\ endCalls[i] = 1 <=> txProcessed[i] = The(txCount[i])
      /\ The(txCount[i]) = 0 => result[i] = {0}

\* the receipt fetches of item i that are in flight
Receipts(i) == { c \in inflight : c.id = i /\ c.kind = "receipt" }

\* C12: the result of an eth_getLogs request is the concatenation of the logs
\* of all its receipts (T * R entries for T receipts of R logs each), and
\* each receipt fetch asks for the hash of its own transaction.
C12_LogsAreAggregated ==
  \A i \in Ids :
    /\ \A c \in Receipts(i) :
         c.txhash = {Transactions(The(txCount[i]))[c.tx].hash}
    /\ result[i] # {} => result[i] = {carried[i]}

\* the executions begun in the last step whose method has a case
BegunSupported ==
  { k \in DOMAIN began : method[began[k]] \in SupportedMethods \cup {LogsMethod} }

\* C13: every transport call is issued by an execution the throttled executor
\* admitted, and every admitted execution of a supported method issues
\* exactly one transport call: in every step, as many calls are issued as
\* executions of supported methods begin.
C13_CallsAreAdmitted ==
  [][ Cardinality(inflight' \ inflight) = Cardinality(BegunSupported') ]_vars

(***************************************************************************)
(* Claims about what an item carries.                                      *)
(***************************************************************************)
\* C14: the scheme and the network of a queued item are those the provider
\* had when handleRequest was called; whatever the provider is given while
\* the item is queued, pending in the limiter or queued again after a
\* forbidden answer, every call issued for the item uses the item's.
C14_UriIsCaptured ==
  [][ /\ submitted' # submitted => itemUri'[submitted'] = {<<proto, network>>}
      /\ \A i \in Ids : Submitted(i) => itemUri'[i] = itemUri[i]
      /\ \A c \in inflight' \ inflight : c.uri \in itemUri[c.id] ]_vars

\* C14 witness: an item has just been executed with its own scheme and
\* network, both of which the provider has changed since it was submitted
C14_Witness ==
  \E c \in inflight :
    /\ c.id \in Range(began)
    /\ c.uri \in itemUri[c.id]
    /\ c.uri[1] # proto /\ c.uri[2] # network

(***************************************************************************)
(* Claims about one call of etherscanXHR.                                  *)
(***************************************************************************)
\* C15: every error value that reaches the caller's end is an Error object
\* (transport errors, status messages or bodies, parse failures and API
\* error messages are wrapped where they are not one), retry on or off; a
\* success reaches it with a falsy error and the result unchanged.
C15_ErrorsAreNormalized ==
  \A d \in cb, o \in outcome :
    d.called =>
      /\ o.branch # "success" => d.err.t = "Error"
      /\ o.branch = "success" => ~Truthy(d.err) /\ d.result = o.result

\* C16: a response is classified in this order: a transport error fails with
\* that error; else a status above 300 fails with the status message or the
\* raw body; else a body that is not JSON fails; else a proxy-style body with
\* an error field fails with its message or the whole error value, and an
\* account-style body whose message is not "OK" fails with that message;
\* else the call succeeds with the result field of the body.  Exactly one
\* outcome is delivered per call.
C16_ResponseIsClassified ==
  \A o \in outcome, r \in res, m \in xhrModule :
    /\ o.ends = 1 /\ ~o.thrown
    /\ IF Truthy(r.err) THEN o.err = r.err
       ELSE IF r.statusCode > StatusLimit
       THEN o.err \in {Str(r.statusMessage), Str(r.body.raw)}
       ELSE IF ~IsJson(r.body) THEN o.err.t = "Error"
       ELSE IF m = "proxy" /\ r.body.error # Undefined
       THEN o.err \in {Message(r.body.error), r.body.error} /\ o.err # Undefined
       ELSE IF m = "account" /\ r.body.message # Str("OK")
       THEN o.err = r.body.message
       ELSE o.err = Null /\ o.result = r.body.result

(***************************************************************************)
(* Claims about the queue.                                                 *)
(***************************************************************************)
\* C17: a drain tick on a queue of n items with times = k removes the first
\* min(n, k) items, hands them to the throttled executor head first and
\* leaves the other items in their order; on an empty queue it hands
\* nothing over.
C17_TickTakesTheHead ==
  [][ \A h \in Handles :
        handleRequests(h) =>
          LET n == Len(requests)
              k == Min(n, times)
          IN /\ released' = SubSeq(requests, 1, k)
             /\ requests' = SubSeq(requests, k + 1, n) ]_vars

\* item i has been executed, or is held where it will be
RunsOrHeld(i) ==
  \/ i \in retried \/ endCalls[i] > 0 \/ nextCalls[i] > 0
  \/ Pending(i)

\* C18: with retry on, a forbidden answer appends the item behind every item
\* that is in the queue at that moment and does not invoke the caller's end;
\* and an item that is answered forbidden does not starve the others: every
\* other submitted item has been executed or is still held for execution.
C18_RetryGoesToTheTail ==
  [][ /\ \A c \in inflight :
           (retryFailed /\ Respond(c, Forbidden)) =>
             requests' = Append(requests, c.id) /\ endCalls' = endCalls
      /\ \A i \in retried' : \A j \in Ids \ {i} :
           Submitted(j)' => RunsOrHeld(j)' ]_vars

\* end or next of item i has been invoked
Terminated(i) == endCalls[i] > 0 \/ nextCalls[i] > 0

\* the places that hold item i: each place in the queue, the throttled
\* executor, the transport
Places(i) ==
  Cardinality({ k \in DOMAIN requests : requests[k] = i })
  + (IF InLimiter(i) THEN 1 ELSE 0)
  + (IF InFlight(i) THEN 1 ELSE 0)

\* C19: every submitted request whose end or next has not been invoked is
\* held in exactly one place: once in the queue, or pending in the throttled
\* executor, or in flight at the transport.
C19_Conservation ==
  \A i \in Ids : (Submitted(i) /\ ~Terminated(i)) => Places(i) = 1

\* s is the beginning of q
IsPrefix(s, q) == Len(s) <= Len(q) /\ s = SubSeq(q, 1, Len(s))

\* C20: stop() leaves the queue as it is and invokes no callback; while the
\* dispatcher is stopped the items stay at the head of the queue, in their
\* order; and items leave the queue from its head only, handed over in queue
\* order, so that after a restart they are drained in that order ahead of
\* every item submitted later.
C20_StopKeepsTheQueue ==
  [][ /\ Stop => /\ requests' = requests
                 /\ endCalls' = endCalls /\ nextCalls' = nextCalls
                 /\ began' = <<>> /\ released' = <<>>
      /\ ~running /\ ~(\E h \in Handles : handleRequests(h))
           => IsPrefix(requests, requests')
      /\ IsPrefix(released', requests)
      /\ IsPrefix(SubSeq(requests, Len(released') + 1, Len(requests)),
                  requests') ]_vars

\* C20 witness: stop() has been called on a queue of several items, which are
\* still queued, in the order of their submission (no retry puts an item
\* back in these runs, and a submission would have restarted the dispatcher)
C20_Witness ==
  /\ ~running /\ ~retryFailed
  /\ Len(requests) > 1
  /\ \A k \in 1..(Len(requests) - 1) : requests[k] < requests[k + 1]
====
